---- MODULE Spec2Model ----
(***************************************************************************)
(* Model of the gesture handlers of mermaid-zoom-drag                      *)
(* (src/src/controllers/event-controller.ts): the wheel, mouse, touch and  *)
(* keyboard handlers that EventController attaches to a diagram container, *)
(* and the plugin-wide transform (dx, dy, scale) they read and write;     *)
(* the repeated instrumentation of a container (addMouseEvents,            *)
(* addTouchEvents), the focus handlers that fold it (addFocusEvents), and  *)
(* the user-guide modal (src/unnamed/part_000).                            *)
(*                                                                         *)
(* Numbers.  A JavaScript number is modelled as a pair <<n, d>>:           *)
(*   d > 0   the rational n/d in lowest terms,                             *)
(*   <<1,0>> +Infinity, <<-1,0>> -Infinity, <<0,0>> NaN.                   *)
(* The arithmetic follows IEEE-754 for the non-finite values (x/0, 0/0,    *)
(* Infinity*0, Math.max with NaN); rounding of finite values is not        *)
(* modelled: finite arithmetic is exact.                                   *)
(***************************************************************************)
EXTENDS Integers, Sequences, FiniteSets, TLC

(***************************************************************************)
(* Bounds of the model.                                                    *)
(***************************************************************************)
\* Spec delivers at most MaxSteps events to one container, SpecAll at most
\* MaxStepsAll events to the two containers.
MaxSteps == 3
MaxStepsAll == 2
\* SpecBind lets addTouchEvents run on a container until it holds
\* MaxListenerSets sets of touch listeners.
MaxListenerSets == 2
\* SpecFocus delivers at most MaxStepsFocus focus events and setting changes.
MaxStepsFocus == 4
\* SpecModal takes at most MaxStepsModal steps of the user-guide modal.
MaxStepsModal == 10
\* SpecZoomOut delivers at most MaxZoomOuts events, of which the first
\* MaxPinchSteps may be touch events.
MaxZoomOuts == 10
MaxPinchSteps == 2
\* SpecDrag delivers at most MaxStepsDrag events, of which the first
\* MaxPrelude may be keyboard and wheel events before the gestures start.
MaxStepsDrag == 6
MaxPrelude == 2
\* SpecSettings takes at most MaxStepsSettings add and delete clicks.
MaxStepsSettings == 3

Containers == {"A", "B"}
OneContainer == {"A"}
NoContainer == "none"

(***************************************************************************)
(* Number arithmetic.                                                      *)
(***************************************************************************)
Abs(i) == IF i < 0 THEN -i ELSE i

Sgn(i) == IF i < 0 THEN -1 ELSE IF i > 0 THEN 1 ELSE 0

RECURSIVE GCD(_, _)
GCD(a, b) == IF b = 0 THEN a ELSE GCD(b, a % b)

Norm(n, d) ==
    IF d = 0 THEN <<Sgn(n), 0>>
    ELSE LET nn == IF d < 0 THEN -n ELSE n
             dd == Abs(d)
             g  == GCD(Abs(nn), dd)
         IN  <<nn \div g, dd \div g>>

Num(i) == <<i, 1>>

NaN == <<0, 0>>
Infinity == <<1, 0>>
Zero == <<0, 1>>
One == <<1, 1>>

IsNaN(a) == a = NaN
IsFinite(a) == a[2] > 0

Neg(a) == <<-a[1], a[2]>>

Add(a, b) ==
    IF a[2] = 0 /\ b[2] = 0
    THEN (IF a = b THEN a ELSE NaN)
    ELSE Norm(a[1] * b[2] + b[1] * a[2], a[2] * b[2])

Sub(a, b) == Add(a, Neg(b))

Mul(a, b) == Norm(a[1] * b[1], a[2] * b[2])

Div(a, b) ==
    IF b[1] < 0 THEN Norm(-(a[1] * b[2]), -(a[2] * b[1]))
    ELSE Norm(a[1] * b[2], a[2] * b[1])

Lt(a, b) ==
    IF IsNaN(a) \/ IsNaN(b) THEN FALSE
    ELSE IF a[2] = 0 /\ b[2] = 0 THEN a[1] < b[1]
    ELSE IF a[2] = 0 THEN a[1] < 0
    ELSE IF b[2] = 0 THEN b[1] > 0
    ELSE a[1] * b[2] < b[1] * a[2]

MathMax(a, b) ==
    IF IsNaN(a) \/ IsNaN(b) THEN NaN
    ELSE IF Lt(a, b) THEN b ELSE a

\* Math.sqrt on the sums of squares the model's touch points produce (all
\* perfect squares, so the result is exact).
MathSqrt(s) == CHOOSE r \in 0..s : r * r = s

(***************************************************************************)
(* Program constants.                                                      *)
(***************************************************************************)
\* Math.max(0.125, ...)
ScaleFloor == <<1, 8>>
\* event.deltaY * -0.001
WheelFactor == <<-1, 1000>>
\* the keyboard handler's fixed nudge and zoom factors
Nudge == 50
ZoomInFactor == <<11, 10>>
ZoomOutFactor == <<9, 10>>
\* (mutant) a KEYS list that also holds a letter
KEYSWithLetter ==
    {"ArrowUp", "ArrowDown", "ArrowLeft", "ArrowRight", "=", "+", "-", "0", "a"}

\* the keys the keyboard handler recognises
KEYS == {"ArrowUp", "ArrowDown", "ArrowLeft", "ArrowRight", "=", "+", "-", "0"}
\* a `let x: number;` that was never assigned; arithmetic on it gives NaN
Undefined == NaN
\* an inline style property that was never set
Unset == "unset"

(***************************************************************************)
(* Inputs the environment delivers (bounded).                              *)
(***************************************************************************)
P0 == <<0, 0>>
P1 == <<3, 4>>
P2 == <<3, 0>>
Points == {P0, P1, P2}
\* e.touches: one finger, two fingers (distances 5, 3, 4 and 0), three fingers
TouchLists ==
    {<<p>> : p \in Points}
        \cup {<<P0, P1>>, <<P0, P2>>, <<P2, P1>>, <<P1, P1>>}
        \cup {<<P0, P1, P2>>}
\* wheel: pointer position, and the diagram element's bounding rect origin
WheelClients == {<<100, 50>>}
Rects == {<<0, 0>>, <<70, -20>>}
DeltaYs == {-100, 100, 1000}
Buttons == {0, 2}
Keys == KEYS \cup {"a"}

\* Strings typed into the settings tab are sequences of characters.
\* nameInput.value
NameInputs ==
    {<<>>, <<"M">>, <<"g">>, <<"M", "1">>, <<"M", " ">>, <<"_">>, <<".", "m">>}
\* selectorInput.value
SelectorInputs ==
    {<<>>, <<".">>, <<".", "m">>, <<".", "g">>, <<".", "m", "-", "_">>,
     <<"m">>, <<".", "m", " ">>, <<".", ".">>}
\* a supported-diagrams list of one entry
OneDiagram == << [name |-> <<"M">>, selector |-> <<".", "m">>] >>
\* supported-diagrams lists with pairwise distinct names and selectors
StartLists ==
    {<<>>, OneDiagram,
     OneDiagram \o << [name |-> <<"g">>, selector |-> <<".", "g">>] >>}

(***************************************************************************)
(* State.                                                                  *)
(*   plugin  the plugin-wide fields the handlers use: dx, dy, scale,       *)
(*           activeContainer, nativeTouchEventsEnabled                     *)
(*   mouse   per container, the closure variables of addMouseEvents        *)
(*   touch   per container, the closure variables of addTouchEvents        *)
(*   style   per container, the inline style of its diagram element        *)
(*   present per container, whether querySelector(compoundSelector) finds  *)
(*           the diagram element                                           *)
(*   ev      the last event delivered: its kind, its container, whether    *)
(*           preventDefault was called, the primitives it called, and the  *)
(*           transform held in the plugin fields before it                 *)
(*   steps   number of events delivered so far                             *)
(*   bound   per container, whether its diagram element carries the class  *)
(*           'events-bound'                                                *)
(*   extra   per container, the closure variables of the listener sets     *)
(*           registered after the first one, in registration order         *)
(*   instrumented  per container, how many times addMouseEvents and        *)
(*           addTouchEvents have been called on it                         *)
(*   folded  per container, whether it carries the class 'folded'          *)
(*   settings  plugin.settings (automaticFolding, supported_diagrams)      *)
(*   modal   the user-guide modal: where onOpen stands, the content it     *)
(*           built, and the host's file system and network around it       *)
(***************************************************************************)
VARIABLES plugin, mouse, touch, style, present, ev, steps,
          bound, extra, instrumented, folded, settings, modal

vars == <<plugin, mouse, touch, style, present, ev, steps,
          bound, extra, instrumented, folded, settings, modal>>

\* what the gesture handlers never touch
host == <<bound, instrumented, folded, settings, modal>>

\* `translate(${dx}px, ${dy}px) scale(${scale})`: the three numbers the
\* template prints, in order
TransformString(p) == <<p.dx, p.dy, p.scale>>

\* the transform (dx, dy, scale) held in the plugin fields
Transform(p) == [dx |-> p.dx, dy |-> p.dy, scale |-> p.scale]

\* plugin.dx = 0, plugin.dy = 0, plugin.scale = 1, no active container
InitPlugin ==
    plugin = [dx |-> Zero, dy |-> Zero, scale |-> One,
              activeContainer |-> NoContainer,
              nativeTouchEventsEnabled |-> FALSE]

\* the closure variables a call of addMouseEvents declares
FreshMouseClosure ==
    [isDragging |-> FALSE, startX |-> Undefined, startY |-> Undefined,
     initialX |-> Undefined, initialY |-> Undefined]

\* the closure variables a call of addTouchEvents declares
FreshTouchClosure ==
    [isDragging |-> FALSE, isPinching |-> FALSE,
     startX |-> Undefined, startY |-> Undefined,
     initialDistance |-> Undefined]

\* the closures right after addMouseEvents / addTouchEvents ran once
InitMouse ==
    mouse = [c \in Containers |->
                [isDragging |-> FALSE, startX |-> Undefined, startY |-> Undefined,
                 initialX |-> Undefined, initialY |-> Undefined]]

InitTouch ==
    touch = [c \in Containers |->
                [isDragging |-> FALSE, isPinching |-> FALSE,
                 startX |-> Undefined, startY |-> Undefined,
                 initialDistance |-> Undefined]]

\* the containers right after addMouseEvents, addTouchEvents and
\* addFocusEvents ran once on each of them
InitGestures ==
    /\ InitPlugin
    /\ InitMouse
    /\ InitTouch
    /\ style = [c \in Containers |-> [transform |-> <<>>, cursor |-> Unset]]
    /\ present = [c \in Containers |-> TRUE]
    /\ ev = [kind |-> "init", c |-> NoContainer, prevented |-> FALSE,
             calls |-> <<>>, before |-> Transform(plugin), threw |-> FALSE]
    /\ steps = 0
    /\ bound = [c \in Containers |-> TRUE]
    /\ extra = [c \in Containers |-> [mouse |-> <<>>, touch |-> <<>>]]
    /\ instrumented = [c \in Containers |-> [mouse |-> 1, touch |-> 1]]

\* the user-guide modal before it is opened: no content; manifest.dir is
\* set, the assets directory and the video file do not exist yet
ClosedModal ==
    [pc |-> "closed", content |-> <<>>, dir |-> TRUE,
     assets |-> FALSE, video |-> FALSE]

Init ==
    /\ InitGestures
    /\ folded = [c \in Containers |-> FALSE]
    /\ settings = [automaticFolding |-> TRUE,
                   supported_diagrams |-> OneDiagram]
    /\ modal = ClosedModal

Event(kind, c, prevented, calls) ==
    [kind |-> kind, c |-> c, prevented |-> prevented, calls |-> calls,
     before |-> Transform(plugin), threw |-> FALSE]

Step == steps' = steps + 1

(***************************************************************************)
(* The shared primitives of the diagram controller (moveElement,           *)
(* zoomElement, resetZoomAndMove).  Each takes and returns the pair        *)
(* [plugin, style] it reads and writes.                                    *)
(***************************************************************************)
\* element.setCssStyles({transform: ...}) on container c's diagram element
Render(w, c) ==
    [w EXCEPT !.style[c].transform = TransformString(w.plugin)]

\* moveElement(container, dx, dy): adds (dx, dy) to the stored translation
moveElement(w, c, dx, dy) ==
    IF ~present[c] THEN w
    ELSE Render([w EXCEPT !.plugin.dx = Add(@, dx), !.plugin.dy = Add(@, dy)], c)

\* zoomElement(container, factor): multiplies the stored scale, floor 0.125
zoomElement(w, c, factor) ==
    IF ~present[c] THEN w
    ELSE Render([w EXCEPT !.plugin.scale = MathMax(ScaleFloor, Mul(@, factor))], c)

\* resetZoomAndMove(container): translation (0, 0), scale 1
resetZoomAndMove(w, c) ==
    IF ~present[c] THEN w
    ELSE Render([w EXCEPT !.plugin.dx = Zero, !.plugin.dy = Zero,
                          !.plugin.scale = One], c)

World == [plugin |-> plugin, style |-> style]

Activate(w, c) == [w EXCEPT !.plugin.activeContainer = c]

(***************************************************************************)
(* addMouseEvents: the wheel handler.                                      *)
(***************************************************************************)
\* (mutant) the wheel handler without its Math.max floor
WheelScaleUnclamped(prevScale, deltaY) ==
    Add(prevScale, Mul(Num(deltaY), WheelFactor))

\* (mutant) the wheel handler with the sign of the wheel factor lost
WheelScaleInverted(prevScale, deltaY) ==
    MathMax(ScaleFloor, Sub(prevScale, Mul(Num(deltaY), WheelFactor)))

\* this.plugin.scale += event.deltaY * -0.001; Math.max(0.125, scale)
WheelScale(prevScale, deltaY) ==
    MathMax(ScaleFloor, Add(prevScale, Mul(Num(deltaY), WheelFactor)))

\* (mutant) the anchoring shift with the scale ratio inverted
WheelShiftInvertedRatio(offset, newScale, prevScale) ==
    Mul(Num(offset), Sub(One, Div(prevScale, newScale)))

\* (mutant) the anchoring shift with the wrong sign
WheelShiftNegated(offset, newScale, prevScale) ==
    Mul(Num(offset), Sub(Div(newScale, prevScale), One))

\* offset * (1 - this.plugin.scale / prevScale)
WheelShift(offset, newScale, prevScale) ==
    Mul(Num(offset), Sub(One, Div(newScale, prevScale)))

\* the listener sets of container c: the first one and those in extra
MouseClosures(c) == <<mouse[c]>> \o extra[c].mouse

TouchClosures(c) == <<touch[c]>> \o extra[c].touch

WheelWorld(w, c, offsetX, offsetY, deltaY) ==
    LET prevScale == w.plugin.scale
        newScale  == WheelScale(prevScale, deltaY)
        dx        == WheelShift(offsetX, newScale, prevScale)
        dy        == WheelShift(offsetY, newScale, prevScale)
    IN  Render([Activate(w, c) EXCEPT !.plugin.scale = newScale,
                                      !.plugin.dx = Add(@, dx),
                                      !.plugin.dy = Add(@, dy)], c)

\* the wheel listeners of n listener sets run one after the other
RECURSIVE WheelListeners(_, _, _, _, _, _)
WheelListeners(n, w, c, offsetX, offsetY, deltaY) ==
    IF n = 0 THEN w
    ELSE WheelListeners(n - 1, WheelWorld(w, c, offsetX, offsetY, deltaY),
                        c, offsetX, offsetY, deltaY)

Wheel(c, ctrlKey, client, rect, deltaY) ==
    /\ Step
    /\ IF ~ctrlKey
       THEN /\ UNCHANGED <<plugin, style>>
            /\ ev' = Event("wheel", c, FALSE, <<>>)
       ELSE LET w == WheelListeners(Len(MouseClosures(c)), World, c,
                                    client[1] - rect[1], client[2] - rect[2],
                                    deltaY)
            IN  /\ plugin' = w.plugin
                /\ style' = w.style
                /\ ev' = Event("wheel", c, TRUE, <<>>)
    /\ UNCHANGED <<mouse, touch, present, extra>>
    /\ UNCHANGED host

(***************************************************************************)
(* addMouseEvents: mousedown, mousemove, mouseup, mouseleave.              *)
(***************************************************************************)
\* the closure variables of a listener set after its mousedown handler ran
MouseDownSession(client) ==
    [isDragging |-> TRUE,
     startX |-> Num(client[1]), startY |-> Num(client[2]),
     initialX |-> plugin.dx, initialY |-> plugin.dy]

\* (mutant) a mousedown handler without its button guard
MouseDownAnyButton(c, button, client) ==
    /\ Step
    /\ plugin' = [plugin EXCEPT !.activeContainer = c]
    /\ mouse' = [mouse EXCEPT ![c] = MouseDownSession(client)]
    /\ style' = [style EXCEPT ![c].cursor = "grabbing"]
    /\ ev' = Event("mousedown", c, TRUE, <<>>)
    /\ UNCHANGED <<touch, present, extra>>
    /\ UNCHANGED host

MouseDown(c, button, client) ==
    /\ Step
    /\ IF button # 0
       THEN /\ UNCHANGED <<plugin, mouse, style, extra>>
            /\ ev' = Event("mousedown", c, FALSE, <<>>)
       ELSE /\ plugin' = [plugin EXCEPT !.activeContainer = c]
            /\ mouse' = [mouse EXCEPT ![c] = MouseDownSession(client)]
            /\ extra' = [extra EXCEPT ![c].mouse =
                            [i \in DOMAIN extra[c].mouse |-> MouseDownSession(client)]]
            /\ style' = [style EXCEPT ![c].cursor = "grabbing"]
            /\ ev' = Event("mousedown", c, TRUE, <<>>)
    /\ UNCHANGED <<touch, present>>
    /\ UNCHANGED host

\* (mutant) the drag offset added to the current translation instead of the
\* mousedown baseline
DragTranslationFromCurrent(initial, start, client) ==
    Add(plugin.dx, Sub(Num(client), start))

\* (mutant) the drag offset taken from the origin instead of the mousedown point
DragTranslationNoStart(initial, start, client) ==
    Add(initial, Num(client))

\* this.plugin.dx = initialX + (event.clientX - startX)
DragTranslation(initial, start, client) ==
    Add(initial, Sub(Num(client), start))

\* the listener sets of c whose isDragging is true
Dragging(c) == {i \in DOMAIN MouseClosures(c) : MouseClosures(c)[i].isDragging}

\* every mousemove listener that is dragging assigns plugin.dx and plugin.dy;
\* the assignment of the last one registered stands
MouseMove(c, client) ==
    /\ Step
    /\ IF Dragging(c) = {}
       THEN UNCHANGED <<plugin, style>>
       ELSE LET last == CHOOSE i \in Dragging(c) : \A j \in Dragging(c) : j <= i
                m == MouseClosures(c)[last]
                w == [Activate(World, c) EXCEPT
                        !.plugin.dx = DragTranslation(m.initialX, m.startX,
                                                      client[1]),
                        !.plugin.dy = DragTranslation(m.initialY, m.startY,
                                                      client[2])]
                r == Render(w, c)
            IN  plugin' = r.plugin /\ style' = r.style
    /\ ev' = Event("mousemove", c, FALSE, <<>>)
    /\ UNCHANGED <<mouse, touch, present, extra>>
    /\ UNCHANGED host

\* (mutant) mouseup / mouseleave that end the session but leave the cursor
EndDragKeepsCursor(kind, c) ==
    /\ Step
    /\ plugin' = [plugin EXCEPT !.activeContainer = c]
    /\ mouse' = [mouse EXCEPT ![c].isDragging = FALSE]
    /\ ev' = Event(kind, c, FALSE, <<>>)
    /\ UNCHANGED <<touch, present, style, extra>>
    /\ UNCHANGED host

\* the body shared by the mouseup and mouseleave handlers
EndDrag(kind, c) ==
    /\ Step
    /\ plugin' = [plugin EXCEPT !.activeContainer = c]
    /\ IF Dragging(c) # {}
       THEN /\ mouse' = [mouse EXCEPT ![c].isDragging = FALSE]
            /\ extra' = [extra EXCEPT ![c].mouse =
                            [i \in DOMAIN extra[c].mouse |->
                                [extra[c].mouse[i] EXCEPT !.isDragging = FALSE]]]
            /\ style' = [style EXCEPT ![c].cursor = "grab"]
       ELSE UNCHANGED <<mouse, style, extra>>
    /\ ev' = Event(kind, c, FALSE, <<>>)
    /\ UNCHANGED <<touch, present>>
    /\ UNCHANGED host

MouseUp(c) == EndDrag("mouseup", c)

MouseLeave(c) == EndDrag("mouseleave", c)

(***************************************************************************)
(* addTouchEvents: touchstart, touchmove, touchend, scroll.                *)
(***************************************************************************)
\* calculateDistance(touches): Euclidean distance of touches[0], touches[1]
calculateDistance(touches) ==
    LET dx == touches[2][1] - touches[1][1]
        dy == touches[2][2] - touches[1][2]
    IN  Num(MathSqrt(dx * dx + dy * dy))

\* the closure variables after innerTS ran past its guards
TouchStartSession(t, touches) ==
    IF Len(touches) = 1
    THEN [t EXCEPT !.isDragging = TRUE,
                   !.startX = Num(touches[1][1]), !.startY = Num(touches[1][2])]
    ELSE IF Len(touches) = 2
    THEN [t EXCEPT !.isPinching = TRUE,
                   !.initialDistance = calculateDistance(touches)]
    ELSE t

TouchStart(c, targetIsButton, touches) ==
    /\ Step
    /\ IF plugin.nativeTouchEventsEnabled
       THEN /\ UNCHANGED <<plugin, touch, extra>>
            /\ ev' = Event("touchstart", c, FALSE, <<>>)
       ELSE /\ plugin' = [plugin EXCEPT !.activeContainer = c]
            /\ IF targetIsButton
               THEN /\ UNCHANGED <<touch, extra>>
                    /\ ev' = Event("touchstart", c, FALSE, <<>>)
               ELSE /\ touch' = [touch EXCEPT ![c] = TouchStartSession(@, touches)]
                    /\ extra' = [extra EXCEPT ![c].touch =
                                    [i \in DOMAIN extra[c].touch |->
                                        TouchStartSession(extra[c].touch[i], touches)]]
                    /\ ev' = Event("touchstart", c, TRUE, <<>>)
    /\ UNCHANGED <<mouse, style, present>>
    /\ UNCHANGED host

\* (mutant) the pinch factor upside down
PinchFactorInverted(currentDistance, initialDistance) ==
    Div(initialDistance, currentDistance)

\* currentDistance / initialDistance
PinchFactor(currentDistance, initialDistance) ==
    Div(currentDistance, initialDistance)

\* (mutant) the finger position handed to moveElement instead of the delta
TouchDeltaFromOrigin(client, start) == Num(client)

\* the per-frame delta handed to moveElement
TouchDelta(client, start) == Sub(Num(client), start)

\* (mutant) innerTM without the baseline reset that ends each frame
TouchMoveSessionStale(t, touches) == t

\* the closure variables after innerTM ran past its guards
TouchMoveSession(t, touches) ==
    IF t.isDragging /\ Len(touches) = 1
    THEN [t EXCEPT !.startX = Num(touches[1][1]), !.startY = Num(touches[1][2])]
    ELSE IF t.isPinching /\ Len(touches) = 2
    THEN [t EXCEPT !.initialDistance = calculateDistance(touches)]
    ELSE t

\* the primitive calls innerTM makes, in order
TouchMoveCalls(t, c, touches) ==
    IF t.isDragging /\ Len(touches) = 1
    THEN << <<"moveElement", c, TouchDelta(touches[1][1], t.startX),
              TouchDelta(touches[1][2], t.startY), FALSE>> >>
    ELSE IF t.isPinching /\ Len(touches) = 2
    THEN << <<"zoomElement", c,
              PinchFactor(calculateDistance(touches), t.initialDistance), FALSE>> >>
    ELSE <<>>

\* the primitive calls the touchmove listeners of several listener sets
\* make, in registration order
RECURSIVE TouchMoveCallsAll(_, _, _)
TouchMoveCallsAll(ts, c, touches) ==
    IF ts = <<>> THEN <<>>
    ELSE TouchMoveCalls(Head(ts), c, touches)
            \o TouchMoveCallsAll(Tail(ts), c, touches)

\* the effect of a sequence of primitive calls on [plugin, style]
RECURSIVE Apply(_, _)
Apply(w, calls) ==
    IF calls = <<>> THEN w
    ELSE LET k == Head(calls)
             w1 == IF k[1] = "moveElement" THEN moveElement(w, k[2], k[3], k[4])
                   ELSE IF k[1] = "zoomElement" THEN zoomElement(w, k[2], k[3])
                   ELSE resetZoomAndMove(w, k[2])
         IN  Apply(w1, Tail(calls))

\* innerTM never looks at e.target: targetIsButton is an input it ignores
TouchMove(c, targetIsButton, touches) ==
    /\ Step
    /\ IF plugin.nativeTouchEventsEnabled
       THEN /\ UNCHANGED <<plugin, touch, style, extra>>
            /\ ev' = Event("touchmove", c, FALSE, <<>>)
       ELSE IF ~present[c]
       THEN /\ plugin' = [plugin EXCEPT !.activeContainer = c]
            /\ UNCHANGED <<touch, style, extra>>
            /\ ev' = Event("touchmove", c, TRUE, <<>>)
       ELSE LET calls == TouchMoveCallsAll(TouchClosures(c), c, touches)
                w == Apply(Activate(World, c), calls)
            IN  /\ plugin' = w.plugin
                /\ style' = w.style
                /\ touch' = [touch EXCEPT ![c] = TouchMoveSession(@, touches)]
                /\ extra' = [extra EXCEPT ![c].touch =
                                [i \in DOMAIN extra[c].touch |->
                                    TouchMoveSession(extra[c].touch[i], touches)]]
                /\ ev' = Event("touchmove", c, TRUE, calls)
    /\ UNCHANGED <<mouse, present>>
    /\ UNCHANGED host

\* the closure variables after innerTE ran past its guards
TouchEndSession(t) == [t EXCEPT !.isDragging = FALSE, !.isPinching = FALSE]

TouchEnd(c, targetIsButton) ==
    /\ Step
    /\ IF plugin.nativeTouchEventsEnabled
       THEN /\ UNCHANGED <<plugin, touch, extra>>
            /\ ev' = Event("touchend", c, FALSE, <<>>)
       ELSE /\ plugin' = [plugin EXCEPT !.activeContainer = c]
            /\ IF targetIsButton
               THEN /\ UNCHANGED <<touch, extra>>
                    /\ ev' = Event("touchend", c, FALSE, <<>>)
               ELSE /\ touch' = [touch EXCEPT ![c] = TouchEndSession(@)]
                    /\ extra' = [extra EXCEPT ![c].touch =
                                    [i \in DOMAIN extra[c].touch |->
                                        TouchEndSession(extra[c].touch[i])]]
                    /\ ev' = Event("touchend", c, TRUE, <<>>)
    /\ UNCHANGED <<mouse, style, present>>
    /\ UNCHANGED host

\* (mutant) innerScroll without its nativeTouchEventsEnabled guard
ScrollUnguarded(c) ==
    /\ Step
    /\ plugin' = [plugin EXCEPT !.activeContainer = c]
    /\ ev' = Event("scroll", c, TRUE, <<>>)
    /\ UNCHANGED <<mouse, touch, style, present, extra>>
    /\ UNCHANGED host

Scroll(c) ==
    /\ Step
    /\ IF plugin.nativeTouchEventsEnabled
       THEN /\ UNCHANGED plugin
            /\ ev' = Event("scroll", c, FALSE, <<>>)
       ELSE /\ plugin' = [plugin EXCEPT !.activeContainer = c]
            /\ ev' = Event("scroll", c, TRUE, <<>>)
    /\ UNCHANGED <<mouse, touch, style, present, extra>>
    /\ UNCHANGED host

\* the host switches plugin.nativeTouchEventsEnabled
SetNativeTouchEvents(b) ==
    /\ Step
    /\ plugin.nativeTouchEventsEnabled # b
    /\ plugin' = [plugin EXCEPT !.nativeTouchEventsEnabled = b]
    /\ ev' = Event("setNativeTouchEvents", NoContainer, FALSE, <<>>)
    /\ UNCHANGED <<mouse, touch, style, present, extra>>
    /\ UNCHANGED host

(***************************************************************************)
(* addKeyboardEvents: the keydown handler of a container.                  *)
(***************************************************************************)
\* (mutant) the arrow keys with the signs of a camera pan
ArrowCallsCameraPan(c, key) ==
    IF key = "ArrowUp" THEN << <<"moveElement", c, Zero, Num(-Nudge), TRUE>> >>
    ELSE IF key = "ArrowDown" THEN << <<"moveElement", c, Zero, Num(Nudge), TRUE>> >>
    ELSE IF key = "ArrowLeft" THEN << <<"moveElement", c, Num(-Nudge), Zero, TRUE>> >>
    ELSE IF key = "ArrowRight" THEN << <<"moveElement", c, Num(Nudge), Zero, TRUE>> >>
    ELSE <<>>

\* the first switch: the arrow keys
ArrowCalls(c, key) ==
    IF key = "ArrowUp" THEN << <<"moveElement", c, Zero, Num(Nudge), TRUE>> >>
    ELSE IF key = "ArrowDown" THEN << <<"moveElement", c, Zero, Num(-Nudge), TRUE>> >>
    ELSE IF key = "ArrowLeft" THEN << <<"moveElement", c, Num(Nudge), Zero, TRUE>> >>
    ELSE IF key = "ArrowRight" THEN << <<"moveElement", c, Num(-Nudge), Zero, TRUE>> >>
    ELSE <<>>

\* the second switch, under `if (e.ctrlKey)`
ZoomKeyCalls(c, key, ctrlKey) ==
    IF ~ctrlKey THEN <<>>
    ELSE IF key \in {"=", "+"} THEN << <<"zoomElement", c, ZoomInFactor, TRUE>> >>
    ELSE IF key = "-" THEN << <<"zoomElement", c, ZoomOutFactor, TRUE>> >>
    ELSE IF key = "0" THEN << <<"resetZoomAndMove", c, TRUE>> >>
    ELSE <<>>

KeyDown(c, key, ctrlKey, metaKey) ==
    /\ Step
    /\ IF key \notin KEYS
       THEN /\ UNCHANGED <<plugin, style>>
            /\ ev' = Event("keydown", c, FALSE, <<>>)
       ELSE LET calls == ArrowCalls(c, key) \o ZoomKeyCalls(c, key, ctrlKey)
                w == Apply(Activate(World, c), calls)
            IN  /\ ev' = Event("keydown", c, TRUE, calls)
                /\ plugin' = w.plugin
                /\ style' = w.style
    /\ UNCHANGED <<mouse, touch, present, extra>>
    /\ UNCHANGED host

(***************************************************************************)
(* Instrumentation: addMouseEvents and addTouchEvents called again on a    *)
(* container that already went through them once.                         *)
(***************************************************************************)
\* (mutant) addMouseEvents without its look at the marker class
NeverBound(c) == FALSE

\* diagramElement.classList.contains('events-bound')
AlreadyBound(c) == bound[c]

\* addMouseEvents(container): returns when the marker is there, otherwise
\* sets it and registers one more set of five listeners with fresh closure
\* variables
AddMouseEvents(c) ==
    /\ Step
    /\ instrumented' = [instrumented EXCEPT ![c].mouse = @ + 1]
    /\ IF ~present[c]
       THEN \* querySelector returned null: reading .classList throws
            /\ UNCHANGED <<bound, extra>>
            /\ ev' = [Event("addMouseEvents", c, FALSE, <<>>)
                        EXCEPT !.threw = TRUE]
       ELSE /\ IF AlreadyBound(c)
               THEN UNCHANGED <<bound, extra>>
               ELSE /\ bound' = [bound EXCEPT ![c] = TRUE]
                    /\ extra' = [extra EXCEPT
                                   ![c].mouse = Append(@, FreshMouseClosure)]
            /\ ev' = Event("addMouseEvents", c, FALSE, <<>>)
    /\ UNCHANGED <<plugin, mouse, touch, style, present, folded, settings, modal>>

\* the host removes the diagram element from the container (the note is
\* re-rendered): querySelector(compoundSelector) finds nothing from now on
RemoveDiagram(c) ==
    /\ Step
    /\ present[c]
    /\ present' = [present EXCEPT ![c] = FALSE]
    /\ ev' = Event("removeDiagram", c, FALSE, <<>>)
    /\ UNCHANGED <<plugin, mouse, touch, style, extra>>
    /\ UNCHANGED host

\* addTouchEvents(container): registers one more set of four listeners with
\* fresh closure variables, whatever was registered before
AddTouchEvents(c) ==
    /\ Step
    /\ instrumented' = [instrumented EXCEPT ![c].touch = @ + 1]
    /\ extra' = [extra EXCEPT ![c].touch = Append(@, FreshTouchClosure)]
    /\ ev' = Event("addTouchEvents", c, FALSE, <<>>)
    /\ UNCHANGED <<plugin, mouse, touch, style, present, bound, folded,
                   settings, modal>>

(***************************************************************************)
(* addFocusEvents: the focusin and focusout handlers of a container, and   *)
(* the settings toggle that switches automatic folding.                    *)
(***************************************************************************)
FocusIn(c) ==
    /\ Step
    /\ IF settings.automaticFolding
       THEN folded' = [folded EXCEPT ![c] = FALSE]
       ELSE UNCHANGED folded
    /\ ev' = Event("focusin", c, FALSE, <<>>)
    /\ UNCHANGED <<plugin, mouse, touch, style, present, bound, extra,
                   instrumented, settings, modal>>

\* (mutant) a focusout handler that does not look at the setting
FocusOutUnconditional(c) ==
    /\ Step
    /\ folded' = [folded EXCEPT ![c] = TRUE]
    /\ ev' = Event("focusout", c, FALSE, <<>>)
    /\ UNCHANGED <<plugin, mouse, touch, style, present, bound, extra,
                   instrumented, settings, modal>>

FocusOut(c) ==
    /\ Step
    /\ IF settings.automaticFolding
       THEN folded' = [folded EXCEPT ![c] = TRUE]
       ELSE UNCHANGED folded
    /\ ev' = Event("focusout", c, FALSE, <<>>)
    /\ UNCHANGED <<plugin, mouse, touch, style, present, bound, extra,
                   instrumented, settings, modal>>

\* the settings tab's toggle: this.plugin.settings.automaticFolding = value
SetAutomaticFolding(value) ==
    /\ Step
    /\ settings' = [settings EXCEPT !.automaticFolding = value]
    /\ ev' = Event("setAutomaticFolding", NoContainer, FALSE, <<>>)
    /\ UNCHANGED <<plugin, mouse, touch, style, present, bound, extra,
                   instrumented, folded, modal>>

(***************************************************************************)
(* SettingsTab.display: the add-diagram and delete-diagram buttons.        *)
(***************************************************************************)
UpperCase == {"A", "B", "C", "D", "E", "F", "G", "H", "I", "J", "K", "L", "M",
              "N", "O", "P", "Q", "R", "S", "T", "U", "V", "W", "X", "Y", "Z"}
LowerCase == {"a", "b", "c", "d", "e", "f", "g", "h", "i", "j", "k", "l", "m",
              "n", "o", "p", "q", "r", "s", "t", "u", "v", "w", "x", "y", "z"}
Digits == {"0", "1", "2", "3", "4", "5", "6", "7", "8", "9"}
\* the class \w
WordChars == UpperCase \cup LowerCase \cup Digits \cup {"_"}

\* diagramR.test(name) with diagramR = /^[A-Za-z0-9]+$/
diagramRTest(name) ==
    /\ Len(name) >= 1
    /\ \A i \in DOMAIN name : name[i] \in UpperCase \cup LowerCase \cup Digits

\* selectorR.test(selector) with selectorR = /^\.[\w-]+$/
selectorRTest(selector) ==
    /\ Len(selector) >= 2
    /\ selector[1] = "."
    /\ \A i \in 2..Len(selector) : selector[i] \in WordChars \cup {"-"}

\* (mutant) the duplicate test looking at names only
isAlreadyExistNameOnly(diagrams, name, selector) ==
    \E i \in DOMAIN diagrams : diagrams[i].name = name

\* supported_diagrams.find((d) => d.name === name || d.selector === selector)
isAlreadyExist(diagrams, name, selector) ==
    \E i \in DOMAIN diagrams :
        diagrams[i].name = name \/ diagrams[i].selector = selector

\* a click of a settings-tab button: the transform, the listeners and the
\* modal are not involved
SettingsStep(kind, calls) ==
    /\ Step
    /\ ev' = Event(kind, NoContainer, FALSE, calls)
    /\ UNCHANGED <<plugin, mouse, touch, style, present, bound, extra,
                   instrumented, folded, modal>>

\* the add button's onClick; inputsFound is whether both input elements
\* were found under the setting
AddDiagram(inputsFound, name, selector) ==
    IF ~inputsFound
    THEN SettingsStep("addDiagram", <<>>) /\ UNCHANGED settings
    ELSE IF ~diagramRTest(name) \/ ~selectorRTest(selector)
    THEN /\ SettingsStep("addDiagram", << <<"Notice", "Input is not valid!">> >>)
         /\ UNCHANGED settings
    ELSE IF isAlreadyExist(settings.supported_diagrams, name, selector)
    THEN /\ SettingsStep("addDiagram", << <<"Notice", "Is already exists!">> >>)
         /\ UNCHANGED settings
    ELSE /\ SettingsStep("addDiagram",
                         << <<"saveSettings">>, <<"Notice", "New diagram added!">> >>)
         /\ settings' = [settings EXCEPT !.supported_diagrams =
                            Append(@, [name |-> name, selector |-> selector])]

\* the delete button of the i-th row: filter((diagramV) => diagramV !==
\* diagram) drops the row's own object, the entries being distinct objects
DeleteDiagram(i) ==
    /\ i \in DOMAIN settings.supported_diagrams
    /\ SettingsStep("deleteDiagram", << <<"saveSettings">> >>)
    /\ settings' = [settings EXCEPT !.supported_diagrams =
                       SubSeq(@, 1, i - 1) \o SubSeq(@, i + 1, Len(@))]

(***************************************************************************)
(* UserGuideModal: onOpen, loadVideo and downloadVideo, one action per     *)
(* await.  modal.pc names the host call the modal is waiting for; the      *)
(* host answers it or rejects it.                                          *)
(***************************************************************************)
\* the answers of a host call that returns nothing or a stored fact
Answers == {"ok", "rejects"}

\* the elements onOpen creates before it awaits loadVideo
GuideText == <<"h2", "p", "h3", "ol">>

ModalStep(kind, m) ==
    /\ Step
    /\ modal' = m
    /\ ev' = Event(kind, NoContainer, FALSE, <<>>)
    /\ UNCHANGED <<plugin, mouse, touch, style, present, bound, extra,
                   instrumented, folded, settings>>

\* onOpen up to `await this.loadVideo()`, and loadVideo up to its first
\* await; without manifest.dir loadVideo returns null and onOpen returns
OpenModal ==
    /\ modal.pc = "closed"
    /\ ModalStep("open",
                 [modal EXCEPT !.content = GuideText,
                               !.pc = IF modal.dir THEN "exists(assetsPath)"
                                      ELSE "resolved"])

\* await this.app.vault.adapter.exists(assetsPath)
ExistsAssets(answer) ==
    /\ modal.pc = "exists(assetsPath)"
    /\ ModalStep("exists(assetsPath)",
                 [modal EXCEPT !.pc = IF answer = "rejects" THEN "rejected"
                                      ELSE IF modal.assets THEN "isFirstPluginStart"
                                      ELSE "mkdir"])

\* await this.app.vault.adapter.mkdir(assetsPath)
Mkdir(answer) ==
    /\ modal.pc = "mkdir"
    /\ ModalStep("mkdir",
                 IF answer = "rejects" THEN [modal EXCEPT !.pc = "rejected"]
                 ELSE [modal EXCEPT !.assets = TRUE, !.pc = "isFirstPluginStart"])

\* await this.plugin.pluginStateChecker.isFirstPluginStart()
IsFirstPluginStart(answer) ==
    /\ modal.pc = "isFirstPluginStart"
    /\ ModalStep("isFirstPluginStart",
                 [modal EXCEPT !.pc = IF answer = "rejects" THEN "rejected"
                                      ELSE IF answer = "true" THEN "downloadFile"
                                      ELSE "exists(videoPath)"])

\* await this.app.vault.adapter.exists(videoPath)
ExistsVideo(answer) ==
    /\ modal.pc = "exists(videoPath)"
    /\ ModalStep("exists(videoPath)",
                 [modal EXCEPT !.pc = IF answer = "rejects" THEN "rejected"
                                      ELSE IF modal.video THEN "readBinary"
                                      ELSE "downloadFile"])

\* downloadVideo: await this.downloadFile(url); a rejection is caught and
\* downloadVideo returns null
DownloadFile(answer) ==
    /\ modal.pc = "downloadFile"
    /\ ModalStep("downloadFile",
                 [modal EXCEPT !.pc = IF answer = "rejects" THEN "readBinary"
                                      ELSE "writeBinary"])

\* downloadVideo: await writeBinary(videoPath, ...); a rejection is caught
WriteBinary(answer) ==
    /\ modal.pc = "writeBinary"
    /\ ModalStep("writeBinary",
                 IF answer = "rejects" THEN [modal EXCEPT !.pc = "readBinary"]
                 ELSE [modal EXCEPT !.video = TRUE, !.pc = "readBinary"])

\* onOpen after loadVideo: await readBinary(videoPath) inside try/catch,
\* then the Close button; a file that is not there cannot be read
ReadBinary(answer) ==
    /\ modal.pc = "readBinary"
    /\ answer = "ok" => modal.video
    /\ ModalStep("readBinary",
                 [modal EXCEPT !.content = IF answer = "ok"
                                           THEN @ \o <<"video", "button">>
                                           ELSE @ \o <<"button">>,
                               !.pc = "resolved"])

\* onClose, once onOpen has settled
CloseModal ==
    /\ modal.pc \in {"resolved", "rejected"}
    /\ ModalStep("close", [modal EXCEPT !.content = <<>>, !.pc = "closed"])

(***************************************************************************)
(* The specifications: the events the environment can deliver to the       *)
(* containers of S, in any order, n events at most.                        *)
(***************************************************************************)
Events(S, n) ==
    \/ \E c \in S, ctrlKey \in BOOLEAN, client \in WheelClients,
          rect \in Rects, deltaY \in DeltaYs :
            steps < n /\ Wheel(c, ctrlKey, client, rect, deltaY)
    \/ \E c \in S, button \in Buttons, client \in Points :
            steps < n /\ MouseDown(c, button, client)
    \/ \E c \in S, client \in Points : steps < n /\ MouseMove(c, client)
    \/ \E c \in S : steps < n /\ MouseUp(c)
    \/ \E c \in S : steps < n /\ MouseLeave(c)
    \/ \E c \in S, targetIsButton \in BOOLEAN, touches \in TouchLists :
            steps < n /\ TouchStart(c, targetIsButton, touches)
    \/ \E c \in S, targetIsButton \in BOOLEAN, touches \in TouchLists :
            steps < n /\ TouchMove(c, targetIsButton, touches)
    \/ \E c \in S, targetIsButton \in BOOLEAN :
            steps < n /\ TouchEnd(c, targetIsButton)
    \/ \E c \in S : steps < n /\ Scroll(c)
    \/ \E b \in BOOLEAN : steps < n /\ SetNativeTouchEvents(b)
    \/ \E c \in S, key \in Keys, ctrlKey \in BOOLEAN, metaKey \in BOOLEAN :
            steps < n /\ KeyDown(c, key, ctrlKey, metaKey)

Next == Events(OneContainer, MaxSteps)

Spec == Init /\ [][Next]_vars

NextAll == Events(Containers, MaxStepsAll)

SpecAll == Init /\ [][NextAll]_vars

\* SpecBind: repeated instrumentation of the containers of S, and the
\* gestures that show how many listeners answer one event
Binds(S, n) ==
    \/ \E c \in S : steps < n /\ AddMouseEvents(c)
    \/ \E c \in S :
            /\ steps < n
            /\ instrumented[c].touch < MaxListenerSets
            /\ AddTouchEvents(c)
    \/ \E c \in S, client \in WheelClients, rect \in Rects, deltaY \in DeltaYs :
            steps < n /\ Wheel(c, TRUE, client, rect, deltaY)
    \/ \E c \in S, client \in Points : steps < n /\ MouseDown(c, 0, client)
    \/ \E c \in S, client \in Points : steps < n /\ MouseMove(c, client)
    \/ \E c \in S : steps < n /\ MouseUp(c)
    \/ \E c \in S, touches \in TouchLists :
            steps < n /\ TouchStart(c, FALSE, touches)
    \/ \E c \in S, touches \in TouchLists :
            steps < n /\ TouchMove(c, FALSE, touches)
    \/ \E c \in S : steps < n /\ TouchEnd(c, FALSE)

NextBind == Binds(OneContainer, MaxSteps)

SpecBind == Init /\ [][NextBind]_vars

\* SpecMissing: a container whose diagram element can disappear, with the
\* instrumentation calls and touch gestures that look the element up
NextMissing ==
    \/ \E c \in OneContainer : steps < MaxSteps /\ RemoveDiagram(c)
    \/ \E c \in OneContainer : steps < MaxSteps /\ AddMouseEvents(c)
    \/ \E c \in OneContainer, touches \in TouchLists :
            steps < MaxSteps /\ TouchStart(c, FALSE, touches)
    \/ \E c \in OneContainer, touches \in TouchLists :
            steps < MaxSteps /\ TouchMove(c, FALSE, touches)
    \/ \E c \in OneContainer : steps < MaxSteps /\ TouchEnd(c, FALSE)

SpecMissing == Init /\ [][NextMissing]_vars

\* SpecZoomOut: zoom-out events applied again and again, after at most
\* MaxPinchSteps touch events of a two-finger gesture, from a scale at or
\* near the floor.
ZoomOutScales == {ScaleFloor, <<3, 20>>, <<1, 4>>}

ZoomOutPinches == {<<P1, P1>>, <<P0, P1>>}

ZoomOutDeltaYs == {deltaY \in DeltaYs : deltaY > 0}

InitZoomOut ==
    /\ InitMouse
    /\ InitTouch
    /\ \E s \in ZoomOutScales :
          plugin = [dx |-> Zero, dy |-> Zero, scale |-> s,
                    activeContainer |-> NoContainer,
                    nativeTouchEventsEnabled |-> FALSE]
    /\ style = [c \in Containers |-> [transform |-> <<>>, cursor |-> Unset]]
    /\ present = [c \in Containers |-> TRUE]
    /\ ev = [kind |-> "init", c |-> NoContainer, prevented |-> FALSE,
             calls |-> <<>>, before |-> Transform(plugin), threw |-> FALSE]
    /\ steps = 0
    /\ bound = [c \in Containers |-> TRUE]
    /\ extra = [c \in Containers |-> [mouse |-> <<>>, touch |-> <<>>]]
    /\ instrumented = [c \in Containers |-> [mouse |-> 1, touch |-> 1]]
    /\ folded = [c \in Containers |-> FALSE]
    /\ settings = [automaticFolding |-> TRUE,
                   supported_diagrams |-> OneDiagram]
    /\ modal = ClosedModal

ZoomOutWheel ==
    \E c \in OneContainer, client \in WheelClients, rect \in Rects,
       deltaY \in ZoomOutDeltaYs :
         steps < MaxZoomOuts /\ Wheel(c, TRUE, client, rect, deltaY)

ZoomOutKey ==
    \E c \in OneContainer : steps < MaxZoomOuts /\ KeyDown(c, "-", TRUE, FALSE)

NextZoomOut ==
    \/ ZoomOutWheel
    \/ ZoomOutKey
    \/ \E c \in OneContainer, touches \in ZoomOutPinches :
            steps < MaxPinchSteps /\ TouchStart(c, FALSE, touches)
    \/ \E c \in OneContainer, touches \in ZoomOutPinches :
            steps < MaxPinchSteps /\ TouchMove(c, FALSE, touches)

\* one more event is delivered; past the first MaxPinchSteps events it can
\* only be a zoom-out
DeliverZoomOut == steps < MaxZoomOuts /\ Step

\* Zoom-out is the event the claim feeds repeatedly, hence the weak fairness
\* on its delivery: the user goes on until MaxZoomOuts events were delivered.
SpecZoomOut ==
    InitZoomOut /\ [][NextZoomOut]_vars /\ WF_steps(DeliverZoomOut)

\* SpecDrag: one pointer track fed to both drag gestures of a container.
\* After a prelude of keyboard and ctrl+wheel events, a primary mousedown and
\* a one-finger touchstart arrive at the same position, and the finger then
\* moves with no other event in between.  The mouse closure keeps the
\* translation and the position the two gestures started from.
PreludeKinds == {"init", "keydown", "wheel"}

NextDrag ==
    \/ \E c \in OneContainer, key \in KEYS, ctrlKey \in BOOLEAN :
            /\ steps < MaxPrelude
            /\ KeyDown(c, key, ctrlKey, FALSE)
    \/ \E c \in OneContainer, client \in WheelClients, rect \in Rects,
          deltaY \in DeltaYs :
            /\ steps < MaxPrelude
            /\ Wheel(c, TRUE, client, rect, deltaY)
    \/ \E c \in OneContainer, client \in Points :
            /\ ev.kind \in PreludeKinds
            /\ MouseDown(c, 0, client)
    \/ \E c \in OneContainer, p \in Points :
            /\ ev.kind = "mousedown"
            /\ mouse[c].startX = Num(p[1]) /\ mouse[c].startY = Num(p[2])
            /\ TouchStart(c, FALSE, <<p>>)
    \/ \E c \in OneContainer, p \in Points :
            /\ ev.kind \in {"touchstart", "touchmove"}
            /\ steps < MaxStepsDrag
            /\ TouchMove(c, FALSE, <<p>>)

SpecDrag == Init /\ [][NextDrag]_vars

\* SpecSettings: add and delete clicks in the settings tab, from a list with
\* pairwise distinct names and selectors
InitSettings ==
    /\ InitGestures
    /\ folded = [c \in Containers |-> FALSE]
    /\ settings \in [automaticFolding : {TRUE}, supported_diagrams : StartLists]
    /\ modal = ClosedModal

NextSettings ==
    \/ \E inputsFound \in BOOLEAN, name \in NameInputs, selector \in SelectorInputs :
            steps < MaxStepsSettings /\ AddDiagram(inputsFound, name, selector)
    \/ \E i \in 1..(2 + MaxStepsSettings) :
            steps < MaxStepsSettings /\ DeleteDiagram(i)

SpecSettings == InitSettings /\ [][NextSettings]_vars

\* SpecFocus: focus moving in and out of the two containers, whatever their
\* folded class and the automatic-folding setting were to begin with
InitFocus ==
    /\ InitGestures
    /\ folded \in [Containers -> BOOLEAN]
    /\ settings \in [automaticFolding : BOOLEAN,
                     supported_diagrams : {OneDiagram}]
    /\ modal = ClosedModal

NextFocus ==
    \/ \E c \in Containers : steps < MaxStepsFocus /\ FocusIn(c)
    \/ \E c \in Containers : steps < MaxStepsFocus /\ FocusOut(c)
    \/ \E value \in BOOLEAN : steps < MaxStepsFocus /\ SetAutomaticFolding(value)

SpecFocus == InitFocus /\ [][NextFocus]_vars

\* SpecModal: the user-guide modal opened and closed, with every host call
\* free to succeed or fail, from every state of the plugin's directory
InitModal ==
    /\ InitGestures
    /\ folded = [c \in Containers |-> FALSE]
    /\ settings = [automaticFolding |-> TRUE,
                   supported_diagrams |-> OneDiagram]
    /\ \E dir \in BOOLEAN, assets \in BOOLEAN, video \in BOOLEAN :
            /\ video => assets
            /\ modal = [ClosedModal EXCEPT !.dir = dir, !.assets = assets,
                                           !.video = video]

NextModal ==
    \/ steps < MaxStepsModal /\ OpenModal
    \/ \E answer \in Answers : steps < MaxStepsModal /\ ExistsAssets(answer)
    \/ \E answer \in Answers : steps < MaxStepsModal /\ Mkdir(answer)
    \/ \E answer \in {"true", "false", "rejects"} :
            steps < MaxStepsModal /\ IsFirstPluginStart(answer)
    \/ \E answer \in Answers : steps < MaxStepsModal /\ ExistsVideo(answer)
    \/ \E answer \in Answers : steps < MaxStepsModal /\ DownloadFile(answer)
    \/ \E answer \in Answers : steps < MaxStepsModal /\ WriteBinary(answer)
    \/ \E answer \in Answers : steps < MaxStepsModal /\ ReadBinary(answer)
    \/ steps < MaxStepsModal /\ CloseModal

SpecModal == InitModal /\ [][NextModal]_vars

(***************************************************************************)
(* The properties.                                                         *)
(***************************************************************************)

\* the step delivers an event of this kind to container c (every handler
\* action records both in ev)
Delivers(kind, c) == ev'.kind = kind /\ ev'.c = c

\* C1: after any sequence of ctrl+wheel events, pinch touch-moves, keyboard
\* zoom keys and resets, the stored scale is never below 0.125.
C1_ScaleNeverBelowFloor == ~Lt(plugin.scale, ScaleFloor)

\* a ctrl+'-' pressed while the scale already sits at the floor, reached by a
\* wheel zoom-out that was clamped
C1_Witness ==
    /\ ev.kind = "keydown"
    /\ ev.calls = << <<"zoomElement", ev.c, ZoomOutFactor, TRUE>> >>
    /\ ev.before.scale = ScaleFloor
    /\ plugin.scale = ScaleFloor

\* C2: in every state reachable by touchstart, touchmove and touchend events
\* on one container, at most one of the touch flags isDragging and isPinching
\* is true.
C2_AtMostOneTouchFlag ==
    \A c \in Containers : ~(touch[c].isDragging /\ touch[c].isPinching)

\* the translation and scale that the handlers of container c read and
\* render: this.plugin.dx, this.plugin.dy, this.plugin.scale, whatever c is
TransformOf(c) == Transform(plugin)

\* C3: each diagram instance owns its own (dx, dy, scale): an event delivered
\* to one container never changes the translation or scale that a later
\* event on another container b reads and renders for b.
C3_TransformPerContainer ==
    [][\A b \in Containers :
          ev'.c \in Containers \ {b} => TransformOf(b)' = TransformOf(b)]_vars

\* C4: a ctrl+wheel event with cursor offset (offsetX, offsetY) sets the scale
\* to max(0.125, oldScale + deltaY * -0.001) and changes the translation by
\* exactly (offsetX * (1 - newScale/oldScale), offsetY * (1 - newScale/oldScale)),
\* newScale being the clamped value.
C4_WheelZoom ==
    [][\A c \in Containers, client \in WheelClients, rect \in Rects,
          deltaY \in DeltaYs :
          (Delivers("wheel", c) /\ Wheel(c, TRUE, client, rect, deltaY)) =>
            LET oldScale == plugin.scale
                newScale == MathMax(<<1, 8>>,
                                    Add(oldScale, Mul(Num(deltaY), <<-1, 1000>>)))
                ratio    == Div(newScale, oldScale)
                offsetX  == Num(client[1] - rect[1])
                offsetY  == Num(client[2] - rect[2])
            IN  /\ plugin'.scale = newScale
                /\ plugin'.dx = Add(plugin.dx, Mul(offsetX, Sub(One, ratio)))
                /\ plugin'.dy = Add(plugin.dy, Mul(offsetY, Sub(One, ratio)))]_vars

\* a ctrl+wheel zoom-out that was clamped at the floor and moved the diagram
C4_Witness ==
    /\ ev.kind = "wheel" /\ ev.prevented
    /\ Lt(ScaleFloor, ev.before.scale)
    /\ plugin.scale = ScaleFloor
    /\ plugin.dx # ev.before.dx
    /\ plugin.dy # ev.before.dy

\* C5 as stated: from scale 1, dx 0, dy 0, one ctrl+wheel event at cursor
\* offset (100, 50) with deltaY -100 yields scale 1.1, dx = 100 * (1 - 1/1.1),
\* which is 9.09 to two decimals, and dy 4.55 to two decimals.
C5_EndToEndAsStated ==
    [][\A c \in Containers :
          (/\ Transform(plugin) = [dx |-> Zero, dy |-> Zero, scale |-> One]
           /\ Delivers("wheel", c)
           /\ Wheel(c, TRUE, <<100, 50>>, <<0, 0>>, -100)) =>
            /\ plugin'.scale = <<11, 10>>
            /\ plugin'.dx = Mul(Num(100), Sub(One, Div(One, <<11, 10>>)))
            /\ Lt(<<9085, 1000>>, plugin'.dx) /\ Lt(plugin'.dx, <<9095, 1000>>)
            /\ Lt(<<4545, 1000>>, plugin'.dy) /\ Lt(plugin'.dy, <<4555, 1000>>)]_vars

\* C5 (amended): from scale 1, dx 0, dy 0, one ctrl+wheel event at cursor
\* offset (100, 50) with deltaY -100 yields scale 1.1, dx = 100 * (1 - 1.1/1)
\* = -10 and dy = 50 * (1 - 1.1/1) = -5.
C5_EndToEnd ==
    [][\A c \in Containers :
          (/\ Transform(plugin) = [dx |-> Zero, dy |-> Zero, scale |-> One]
           /\ Delivers("wheel", c)
           /\ Wheel(c, TRUE, <<100, 50>>, <<0, 0>>, -100)) =>
            /\ plugin'.scale = <<11, 10>>
            /\ plugin'.dx = Mul(Num(100), Sub(One, Div(<<11, 10>>, One)))
            /\ plugin'.dx = Num(-10)
            /\ plugin'.dy = Num(-5)]_vars

\* the state right after that wheel event
C5_Witness ==
    /\ ev.kind = "wheel" /\ ev.prevented
    /\ ev.before = [dx |-> Zero, dy |-> Zero, scale |-> One]
    /\ Transform(plugin) = [dx |-> Num(-10), dy |-> Num(-5), scale |-> <<11, 10>>]

\* the screen position of the diagram point `local` when the diagram's
\* rendered edge is at origin + translation and its scale is `scale`
ScreenPosition(origin, translation, local, scale) ==
    Add(Add(origin, translation), Mul(local, scale))

\* C6: a ctrl+wheel zoom keeps the diagram point under the cursor fixed on
\* screen: with the diagram's rendered left/top edge at container origin +
\* (dx, dy) and the local point under the cursor at offset/oldScale, that
\* point's screen position after the event equals its position before it, for
\* every offset and deltaY, also when the new scale is clamped at 0.125.
C6_WheelAnchored ==
    [][\A c \in Containers, client \in WheelClients, rect \in Rects,
          deltaY \in DeltaYs :
          (Delivers("wheel", c) /\ Wheel(c, TRUE, client, rect, deltaY)) =>
            LET originX == Sub(Num(rect[1]), plugin.dx)
                originY == Sub(Num(rect[2]), plugin.dy)
                localX  == Div(Num(client[1] - rect[1]), plugin.scale)
                localY  == Div(Num(client[2] - rect[2]), plugin.scale)
            IN  /\ ScreenPosition(originX, plugin'.dx, localX, plugin'.scale)
                     = ScreenPosition(originX, plugin.dx, localX, plugin.scale)
                /\ ScreenPosition(originY, plugin'.dy, localY, plugin'.scale)
                     = ScreenPosition(originY, plugin.dy, localY, plugin.scale)
                /\ (IsFinite(plugin.dx) /\ IsFinite(plugin.scale)) =>
                     ScreenPosition(originX, plugin'.dx, localX, plugin'.scale)
                       = Num(client[1])
                /\ (IsFinite(plugin.dy) /\ IsFinite(plugin.scale)) =>
                     ScreenPosition(originY, plugin'.dy, localY, plugin'.scale)
                       = Num(client[2])]_vars

\* a ctrl+wheel zoom-in from the floor, and one clamped at the floor
C6_Witness ==
    /\ ev.kind = "wheel" /\ ev.prevented
    /\ \/ ev.before.scale = ScaleFloor /\ Lt(ScaleFloor, plugin.scale)
       \/ /\ ev.before.scale = <<9, 10>> /\ plugin.scale = ScaleFloor
          /\ plugin.dx # ev.before.dx

\* C7: mouse drag is absolute: after a primary-button mousedown at
\* (startX, startY) with translation (dx0, dy0) and any N >= 1 mousemove
\* events before mouseup/mouseleave, the translation equals
\* (dx0 + lastX - startX, dy0 + lastY - startY), whatever the intermediate
\* pointer positions were.  Stated step by step: the mousedown stores the
\* start point and the translation, nothing but a mousedown changes them
\* while the session lasts, and each mousemove of the session sets the
\* translation from them and its own pointer position alone.
C7_MouseDragAbsolute ==
    [][\A c \in Containers :
          /\ \A client \in Points :
               (Delivers("mousedown", c) /\ MouseDown(c, 0, client)) =>
                 mouse'[c] = [isDragging |-> TRUE,
                              startX |-> Num(client[1]), startY |-> Num(client[2]),
                              initialX |-> plugin.dx, initialY |-> plugin.dy]
          /\ (/\ mouse[c].isDragging /\ mouse'[c].isDragging
              /\ ~Delivers("mousedown", c)) => mouse'[c] = mouse[c]
          /\ \A client \in Points :
               (/\ Delivers("mousemove", c) /\ mouse[c].isDragging
                /\ MouseMove(c, client)) =>
                 /\ plugin'.dx = Add(mouse[c].initialX,
                                     Sub(Num(client[1]), mouse[c].startX))
                 /\ plugin'.dy = Add(mouse[c].initialY,
                                     Sub(Num(client[2]), mouse[c].startY))
                 /\ plugin'.scale = plugin.scale]_vars

\* a mousemove of a drag session that started away from the origin, after
\* the translation had already left the mousedown baseline
C7_Witness ==
    /\ ev.kind = "mousemove"
    /\ mouse[ev.c].isDragging
    /\ mouse[ev.c].startX # Zero
    /\ ev.before.dx # mouse[ev.c].initialX
    /\ plugin.dx # ev.before.dx
    /\ plugin.dx = Add(mouse[ev.c].initialX, Neg(mouse[ev.c].startX))

\* C8: touch drag is relative: after a one-finger touchstart at p0 and
\* one-finger touchmove events at p1..pN (native-touch flag unset),
\* moveElement is called exactly once per touchmove with the delta
\* p_i - p_(i-1) and the baseline is reset to p_i, so the translation is the
\* starting translation plus the sum of the per-frame deltas.
C8_TouchDragRelative ==
    [][\A c \in Containers, p \in Points :
          /\ (/\ Delivers("touchstart", c) /\ ~plugin.nativeTouchEventsEnabled
              /\ TouchStart(c, FALSE, <<p>>)) =>
               /\ touch'[c].isDragging
               /\ touch'[c].startX = Num(p[1])
               /\ touch'[c].startY = Num(p[2])
          /\ (/\ Delivers("touchmove", c)
              /\ ~plugin.nativeTouchEventsEnabled /\ touch[c].isDragging
              /\ \E targetIsButton \in BOOLEAN :
                   TouchMove(c, targetIsButton, <<p>>)) =>
               LET dx == Sub(Num(p[1]), touch[c].startX)
                   dy == Sub(Num(p[2]), touch[c].startY)
               IN  /\ ev'.calls = << <<"moveElement", c, dx, dy, FALSE>> >>
                   /\ Transform(plugin') = [dx |-> Add(plugin.dx, dx),
                                            dy |-> Add(plugin.dy, dy),
                                            scale |-> plugin.scale]
                   /\ touch'[c].startX = Num(p[1])
                   /\ touch'[c].startY = Num(p[2])]_vars

\* the second one-finger touchmove of a drag: the first moved the diagram
\* and reset the baseline, the second moved it again by its own delta
C8_Witness ==
    /\ ev.kind = "touchmove" /\ steps = 3
    /\ Len(ev.calls) = 1 /\ ev.calls[1][1] = "moveElement"
    /\ ev.calls[1][3] # Zero
    /\ ev.before.dx # Zero
    /\ plugin.dx = Add(ev.before.dx, ev.calls[1][3])
    /\ touch[ev.c].startX = Num(P0[1])

\* the two-finger touch lists of the model
PinchLists == {t \in TouchLists : Len(t) = 2}

\* C9: pinch factors compose: a two-finger touchstart stores the distance
\* d0; each two-finger touchmove at distance d_i zooms by d_i / d_(i-1) and
\* stores d_i; two consecutive moves with factors f1 and f2 give the same
\* scale as one zoom by f1 * f2 whenever the first did not reach the 0.125
\* floor.
C9_PinchFactorsCompose ==
    [][\A c \in Containers, touches \in PinchLists :
          /\ (/\ Delivers("touchstart", c) /\ ~plugin.nativeTouchEventsEnabled
              /\ TouchStart(c, FALSE, touches)) =>
               /\ touch'[c].isPinching
               /\ touch'[c].initialDistance = calculateDistance(touches)
          /\ (/\ Delivers("touchmove", c)
              /\ ~plugin.nativeTouchEventsEnabled /\ touch[c].isPinching
              /\ \E targetIsButton \in BOOLEAN :
                   TouchMove(c, targetIsButton, touches)) =>
               LET d  == calculateDistance(touches)
                   f2 == Div(d, touch[c].initialDistance)
                   first == /\ ev.kind = "touchmove" /\ ev.c = c
                            /\ Len(ev.calls) = 1
                            /\ ev.calls[1][1] = "zoomElement"
                   f1 == ev.calls[1][3]
               IN  /\ ev'.calls = << <<"zoomElement", c, f2, FALSE>> >>
                   /\ touch'[c].initialDistance = d
                   /\ plugin'.scale = MathMax(ScaleFloor, Mul(plugin.scale, f2))
                   /\ (first /\ ~Lt(Mul(ev.before.scale, f1), ScaleFloor)) =>
                        plugin'.scale =
                          MathMax(ScaleFloor, Mul(ev.before.scale, Mul(f1, f2)))]_vars

\* the second move of a pinch whose two factors are finite, differ from 1 and
\* did not reach the floor
C9_Witness ==
    /\ ev.kind = "touchmove" /\ steps = 3
    /\ Len(ev.calls) = 1 /\ ev.calls[1][1] = "zoomElement"
    /\ IsFinite(ev.calls[1][3]) /\ ev.calls[1][3] # One
    /\ IsFinite(plugin.scale) /\ Lt(ScaleFloor, plugin.scale)
    /\ ev.before.scale # One /\ Lt(ScaleFloor, ev.before.scale)
    /\ plugin.scale = Mul(ev.before.scale, ev.calls[1][3])
    /\ plugin.scale = <<4, 5>>

\* C10: each arrow key press nudges the translation by exactly 50 units and
\* leaves the scale unchanged, with or without a modifier held: ArrowUp adds
\* 50 to dy, ArrowDown subtracts 50 from dy, ArrowLeft adds 50 to dx,
\* ArrowRight subtracts 50 from dx.
C10_ArrowKeys ==
    [][\A c \in Containers, ctrlKey \in BOOLEAN, metaKey \in BOOLEAN :
          /\ (Delivers("keydown", c) /\ KeyDown(c, "ArrowUp", ctrlKey, metaKey)) =>
               Transform(plugin') = [Transform(plugin) EXCEPT
                                        !.dy = Add(@, Num(50))]
          /\ (Delivers("keydown", c) /\ KeyDown(c, "ArrowDown", ctrlKey, metaKey)) =>
               Transform(plugin') = [Transform(plugin) EXCEPT
                                        !.dy = Sub(@, Num(50))]
          /\ (Delivers("keydown", c) /\ KeyDown(c, "ArrowLeft", ctrlKey, metaKey)) =>
               Transform(plugin') = [Transform(plugin) EXCEPT
                                        !.dx = Add(@, Num(50))]
          /\ (Delivers("keydown", c) /\ KeyDown(c, "ArrowRight", ctrlKey, metaKey)) =>
               Transform(plugin') = [Transform(plugin) EXCEPT
                                        !.dx = Sub(@, Num(50))]]_vars

\* an ArrowRight after an ArrowUp, at a scale other than 1
C10_Witness ==
    /\ ev.kind = "keydown"
    /\ ev.calls = << <<"moveElement", ev.c, Num(-50), Zero, TRUE>> >>
    /\ plugin.scale # One
    /\ Transform(plugin) = [dx |-> Num(-50), dy |-> Num(50), scale |-> plugin.scale]

\* C11 as stated: with a platform modifier held (ctrl, or cmd on its own),
\* '=' or '+' multiplies the scale by 1.1, '-' multiplies it by 0.9 (floored
\* at 0.125) and '0' resets (dx, dy, scale) to (0, 0, 1) from any prior state;
\* without a modifier these four keys leave the transform unchanged.
C11_ModifierZoomKeys ==
    [][\A c \in Containers, ctrlKey \in BOOLEAN, metaKey \in BOOLEAN :
          LET held == ctrlKey \/ metaKey
              old  == Transform(plugin)
          IN  /\ \A key \in {"=", "+"} :
                   (Delivers("keydown", c) /\ KeyDown(c, key, ctrlKey, metaKey)) =>
                     Transform(plugin') =
                       IF held THEN [old EXCEPT !.scale = Mul(@, <<11, 10>>)]
                       ELSE old
              /\ (Delivers("keydown", c) /\ KeyDown(c, "-", ctrlKey, metaKey)) =>
                   Transform(plugin') =
                     IF held
                     THEN [old EXCEPT !.scale = MathMax(<<1, 8>>, Mul(@, <<9, 10>>))]
                     ELSE old
              /\ (Delivers("keydown", c) /\ KeyDown(c, "0", ctrlKey, metaKey)) =>
                   Transform(plugin') =
                     IF held THEN [dx |-> Zero, dy |-> Zero, scale |-> One]
                     ELSE old]_vars

\* C12: a keydown whose key is not one of ArrowUp, ArrowDown, ArrowLeft,
\* ArrowRight, '=', '+', '-', '0' changes nothing (transform, active
\* container, default not prevented); a keydown for any of those keys always
\* prevents the default and makes the container the active one, also when
\* '=', '+', '-' or '0' is pressed without a modifier and the transform is
\* left unchanged.
\* (the implication "the step is that keydown => its effect is as claimed" is
\* written effect-first, as "effect \/ ~keydown")
C12_RecognisedKeys ==
    [][\A c \in Containers :
          Delivers("keydown", c) =>
            \A key \in Keys, ctrlKey \in BOOLEAN, metaKey \in BOOLEAN :
              LET effect ==
                    IF key \in {"ArrowUp", "ArrowDown", "ArrowLeft", "ArrowRight",
                                "=", "+", "-", "0"}
                    THEN /\ ev'.prevented
                         /\ plugin'.activeContainer = c
                         /\ (key \in {"=", "+", "-", "0"} /\ ~ctrlKey /\ ~metaKey) =>
                              Transform(plugin') = Transform(plugin)
                    ELSE /\ ~ev'.prevented
                         /\ UNCHANGED <<plugin, mouse, touch, style, present, extra>>
              IN  effect \/ ~KeyDown(c, key, ctrlKey, metaKey)]_vars

\* a zoom key pressed without a modifier, after the transform had been
\* changed: default prevented, container active, no primitive called
C12_Witness ==
    /\ ev.kind = "keydown" /\ ev.prevented /\ ev.calls = <<>>
    /\ plugin.activeContainer = ev.c
    /\ ev.before.scale # One
    /\ Transform(plugin) = ev.before

\* the touch and scroll events of addTouchEvents
TouchKinds == {"touchstart", "touchmove", "touchend", "scroll"}

\* C13: while the native-touch-events flag is set, every touchstart,
\* touchmove, touchend and scroll event on the container is a complete no-op
\* (no flag, transform or active-container change, default not prevented);
\* while the flag is unset, every scroll event on the container has its
\* default prevented and leaves the transform and the gesture flags unchanged.
C13_NativeTouchFlag ==
    [][\A c \in Containers :
          /\ (/\ ev'.c = c /\ ev'.kind \in TouchKinds
              /\ plugin.nativeTouchEventsEnabled) =>
               /\ ~ev'.prevented /\ ev'.calls = <<>>
               /\ UNCHANGED <<plugin, mouse, touch, style, present, extra>>
          /\ (Delivers("scroll", c) /\ ~plugin.nativeTouchEventsEnabled) =>
               /\ ev'.prevented
               /\ Transform(plugin') = Transform(plugin)
               /\ UNCHANGED <<mouse, touch, extra>>]_vars

\* a touchmove ignored in the middle of a drag session because the flag had
\* been set after the touchstart
C13_Witness ==
    /\ ev.kind = "touchmove" /\ ~ev.prevented
    /\ plugin.nativeTouchEventsEnabled
    /\ touch[ev.c].isDragging
    /\ plugin.activeContainer = ev.c

\* C14 as stated: a touchstart, touchmove or touchend whose target is inside
\* a zoom/move/service panel button is excluded from gesture handling: it
\* starts no drag or pinch session, never changes the transform, and its
\* default action is not prevented.
C14_PanelButtonTouches ==
    [][\A c \in Containers :
          LET excluded == /\ ~ev'.prevented
                          /\ touch' = touch
                          /\ Transform(plugin') = Transform(plugin)
          IN  /\ \A touches \in TouchLists :
                   (Delivers("touchstart", c) /\ TouchStart(c, TRUE, touches)) =>
                     excluded
              /\ \A touches \in TouchLists :
                   (Delivers("touchmove", c) /\ TouchMove(c, TRUE, touches)) =>
                     excluded
              /\ (Delivers("touchend", c) /\ TouchEnd(c, TRUE)) => excluded]_vars

\* C19 as stated: every touchend delivered to the container sets both
\* isDragging and isPinching to false, whatever its target and however many
\* touches remain; consequently a touchmove that follows a touchend, with no
\* touchstart in between, does not move the diagram.
C19_TouchEndClearsFlags ==
    [][\A c \in Containers :
          /\ Delivers("touchend", c) =>
               ~touch'[c].isDragging /\ ~touch'[c].isPinching
          /\ (Delivers("touchmove", c) /\ ev.kind = "touchend" /\ ev.c = c) =>
               Transform(plugin') = Transform(plugin)]_vars

\* the pointer and focus events a container receives
PointerKinds ==
    {"wheel", "mousedown", "mousemove", "mouseup", "mouseleave",
     "touchstart", "touchmove", "touchend", "focusin", "focusout"}

\* C20 as stated: every mouse, wheel, touch and focus event delivered to a
\* container makes that container the active container, so after any such
\* event on container c the active container is c.
C20_EventActivatesContainer ==
    [][\A c \in Containers :
          (ev'.c = c /\ ev'.kind \in PointerKinds) =>
            plugin'.activeContainer = c]_vars

\* C15: calling addMouseEvents any number of times on the same container
\* attaches the wheel, mousedown, mousemove, mouseup and mouseleave listeners
\* exactly once: a call made when the diagram element already carries the
\* 'events-bound' marker registers nothing, so one real event changes the
\* transform once.
C15_MouseBoundOnce ==
    [][\A c \in Containers :
          /\ (Delivers("addMouseEvents", c) /\ bound[c]) =>
               UNCHANGED <<bound, extra, mouse>>
          /\ Len(MouseClosures(c)') = 1
          /\ \A client \in WheelClients, rect \in Rects, deltaY \in DeltaYs :
               (Delivers("wheel", c) /\ Wheel(c, TRUE, client, rect, deltaY)) =>
                 plugin'.scale =
                   MathMax(ScaleFloor, Add(plugin.scale, Mul(Num(deltaY), WheelFactor)))
          /\ \A client \in Points :
               (/\ Delivers("mousemove", c) /\ mouse[c].isDragging
                /\ MouseMove(c, client)) =>
                 plugin'.dx = Add(mouse[c].initialX,
                                  Sub(Num(client[1]), mouse[c].startX))]_vars

\* a ctrl+wheel on a container on which addMouseEvents had been called a
\* second time: one set of listeners, the scale stepped once
C15_Witness ==
    /\ ev.kind = "wheel" /\ ev.prevented
    /\ instrumented[ev.c].mouse >= 2
    /\ bound[ev.c]
    /\ Len(MouseClosures(ev.c)) = 1
    /\ ev.before.scale = One
    /\ plugin.scale = <<11, 10>>

\* C16 as stated: calling addTouchEvents twice on the same container attaches
\* the touchstart, touchmove, touchend and scroll listeners exactly once, so
\* a single one-finger touchmove moves the diagram by the finger delta once
\* and a single pinch move zooms once.
C16_TouchBoundOnce ==
    [][\A c \in Containers, touches \in TouchLists :
          (/\ Delivers("touchmove", c) /\ instrumented[c].touch = 2
           /\ TouchMove(c, FALSE, touches)) =>
            /\ (touch[c].isDragging /\ Len(touches) = 1) =>
                 /\ plugin'.dx = Add(plugin.dx, Sub(Num(touches[1][1]),
                                                    touch[c].startX))
                 /\ plugin'.dy = Add(plugin.dy, Sub(Num(touches[1][2]),
                                                    touch[c].startY))
            /\ (~touch[c].isDragging /\ touch[c].isPinching /\ Len(touches) = 2) =>
                 plugin'.scale =
                   MathMax(ScaleFloor,
                           Mul(plugin.scale, Div(calculateDistance(touches),
                                                 touch[c].initialDistance)))]_vars

\* the focus events of addFocusEvents
FocusKinds == {"focusin", "focusout"}

\* C17: with the automatic-folding setting enabled, after any sequence of
\* focusin/focusout events a container is folded exactly when the last such
\* event was focusout (unfolded after focusin); with the setting disabled,
\* focus events never change the folded state.  Stated step by step: with
\* the setting enabled a focusin leaves its container unfolded and a focusout
\* leaves it folded, with the setting disabled a focus event changes no
\* folded state, and no step changes the folded state of a container other
\* than the one that receives a focus event.
C17_FocusFolds ==
    [][\A c \in Containers :
          /\ (Delivers("focusin", c) /\ settings.automaticFolding) => ~folded'[c]
          /\ (Delivers("focusout", c) /\ settings.automaticFolding) => folded'[c]
          /\ (ev'.kind \in FocusKinds /\ ~settings.automaticFolding) =>
               folded' = folded
          /\ ~(ev'.kind \in FocusKinds /\ ev'.c = c) => folded'[c] = folded[c]]_vars

\* focus has left a container that an earlier focusin had unfolded, with the
\* setting enabled, while the other container is unfolded
C17_Witness ==
    /\ ev.kind = "focusout" /\ steps >= 2
    /\ settings.automaticFolding
    /\ folded[ev.c]
    /\ \E b \in Containers \ {ev.c} : ~folded[b]

\* C18 as stated: opening the user-guide modal never surfaces an error:
\* whichever of the filesystem or network steps fails, onOpen completes
\* without rejecting, the video element is shown only when the video could
\* be read, and the Close button is still added.
C18_ModalNeverSurfacesError ==
    /\ modal.pc # "rejected"
    /\ (modal.pc = "resolved" /\ modal.dir) =>
         /\ modal.content \in {GuideText \o <<"button">>,
                               GuideText \o <<"video", "button">>}
         /\ modal.content = GuideText \o <<"video", "button">> => modal.video

\* C21 as stated: the stored transform is changed and rendered only through
\* moveElement, zoomElement and resetZoomAndMove: an event that changes dx,
\* dy, scale or the container's transform string has called one of them, and
\* after every event the container's rendered transform string is that of
\* the stored values (no transform string at all while they are 0, 0, 1).
C21_OnlyPrimitivesWrite ==
    [][\A c \in Containers :
          ev'.c = c =>
            /\ (\/ Transform(plugin') # Transform(plugin)
                \/ style'[c].transform # style[c].transform) => ev'.calls # <<>>
            /\ \/ style'[c].transform = TransformString(plugin')
               \/ /\ style'[c].transform = <<>>
                  /\ Transform(plugin') = [dx |-> Zero, dy |-> Zero, scale |-> One]]_vars

\* the mouse events that start or end a drag session
SessionKinds == {"mousedown", "mouseup", "mouseleave"}

\* C24: a mouse drag session is active exactly between a primary-button
\* mousedown and the next mouseup or mouseleave: the cursor is 'grabbing'
\* while it is active and 'grab' after it ends, mousemove events after the
\* end do not change the translation, and a repeated mouseup/mouseleave with
\* no active session changes neither the session flag nor the cursor.
C24_MouseDragSession ==
    [][\A c \in Containers :
          /\ (mouse'[c].isDragging # mouse[c].isDragging) =>
               (ev'.c = c /\ ev'.kind \in SessionKinds)
          /\ mouse'[c].isDragging => style'[c].cursor = "grabbing"
          /\ \A client \in Points :
               (Delivers("mousedown", c) /\ MouseDown(c, 0, client)) =>
                 mouse'[c].isDragging
          /\ (ev'.c = c /\ ev'.kind \in {"mouseup", "mouseleave"}) =>
               /\ ~mouse'[c].isDragging
               /\ IF mouse[c].isDragging
                  THEN style'[c].cursor = "grab"
                  ELSE mouse'[c] = mouse[c] /\ style'[c] = style[c]
          /\ (Delivers("mousemove", c) /\ ~mouse[c].isDragging) =>
               Transform(plugin') = Transform(plugin)]_vars

\* a mousemove after a session that a mouseup or mouseleave had ended: the
\* cursor is 'grab' and the translation stayed
C24_Witness ==
    /\ ev.kind = "mousemove" /\ steps = 3
    /\ ~mouse[ev.c].isDragging
    /\ mouse[ev.c].startX # Undefined
    /\ style[ev.c].cursor = "grab"
    /\ Transform(plugin) = ev.before

\* C25: events that fail their guard leave the transform and the drag
\* session untouched: a wheel event without ctrl, a mousedown with a
\* non-primary button, and a mousemove with no active drag session change
\* neither dx, dy, scale nor isDragging, and do not prevent the default.
C25_GuardedEventsNoEffect ==
    [][\A c \in Containers :
          LET untouched == /\ Transform(plugin') = Transform(plugin)
                           /\ mouse'[c].isDragging = mouse[c].isDragging
                           /\ ~ev'.prevented
          IN  /\ Delivers("wheel", c) =>
                   \A client \in WheelClients, rect \in Rects, deltaY \in DeltaYs :
                     untouched \/ ~Wheel(c, FALSE, client, rect, deltaY)
              /\ Delivers("mousedown", c) =>
                   \A client \in Points :
                     untouched \/ ~MouseDown(c, 2, client)
              /\ (Delivers("mousemove", c) /\ ~mouse[c].isDragging) =>
                   \A client \in Points :
                     untouched \/ ~MouseMove(c, client)]_vars

\* a secondary-button mousedown after the translation had been changed:
\* nothing prevented, no session, translation as before
C25_Witness ==
    /\ ev.kind = "mousedown" /\ ~ev.prevented
    /\ ~mouse[ev.c].isDragging
    /\ ev.before.dx # Zero
    /\ Transform(plugin) = ev.before

\* C26: while a mouse drag session is active, the next mousemove sets the
\* translation to the mousedown baseline plus the pointer delta, so any
\* translation change made since the mousedown by an interleaved keyboard
\* nudge, ctrl+wheel anchoring, touch move or reset is discarded, while an
\* interleaved scale change is kept.  Stated step by step: no event other
\* than a mousedown, mouseup or mouseleave on the container changes the
\* stored baseline and start point, and a mousemove of the session sets the
\* translation from them alone and keeps the scale it finds.
C26_DragDiscardsInterleaved ==
    [][\A c \in Containers :
          /\ (mouse[c].isDragging /\ ~(ev'.c = c /\ ev'.kind \in SessionKinds)) =>
               mouse'[c] = mouse[c]
          /\ (Delivers("mousemove", c) /\ mouse[c].isDragging) =>
               \A client \in Points :
                 \/ Transform(plugin') =
                      [dx |-> Add(mouse[c].initialX,
                                  Sub(Num(client[1]), mouse[c].startX)),
                       dy |-> Add(mouse[c].initialY,
                                  Sub(Num(client[2]), mouse[c].startY)),
                       scale |-> plugin.scale]
                 \/ ~MouseMove(c, client)]_vars

\* mousedown at translation (0, 0) and scale 1, then an event that changed
\* both the translation and the scale, then a mousemove: the translation is
\* back on the mousedown baseline plus the pointer delta, the scale is kept
C26_Witness ==
    /\ ev.kind = "mousemove" /\ steps = 3
    /\ mouse[ev.c].isDragging
    /\ mouse[ev.c].initialX = Zero /\ mouse[ev.c].initialY = Zero
    /\ ev.before.dx # Zero /\ ev.before.scale # One
    /\ plugin.scale = ev.before.scale
    /\ plugin.dx # ev.before.dx
    /\ plugin.dx = Neg(mouse[ev.c].startX)

\* C28 as stated: every zoom factor that a two-finger touchmove forwards to
\* zoomElement is a well-defined positive number: the stored previous
\* inter-finger distance is never zero when it is used as the divisor.
C28_PinchFactorWellDefined ==
    [][\A c \in Containers :
          Delivers("touchmove", c) =>
            /\ (~plugin.nativeTouchEventsEnabled /\ Len(ev'.calls) > 0
                /\ ev'.calls[1][1] = "zoomElement") =>
                 touch[c].initialDistance # Zero
            /\ \A i \in DOMAIN ev'.calls :
                 ev'.calls[i][1] = "zoomElement" =>
                   IsFinite(ev'.calls[i][3]) /\ Lt(Zero, ev'.calls[i][3])]_vars

\* C22 as stated: when no element in the container matches the diagram
\* selector, instrumentation and event handling do not fail: addMouseEvents
\* returns without error, and a touchmove returns early without changing
\* the transform.
C22_MissingElementTolerated ==
    [][\A c \in Containers :
          ~present[c] =>
            /\ Delivers("addMouseEvents", c) => ~ev'.threw
            /\ Delivers("touchmove", c) =>
                 /\ ~ev'.threw
                 /\ ev'.calls = <<>>
                 /\ Transform(plugin') = Transform(plugin)
                 /\ style' = style]_vars

C27_DragsAgree ==
    \A c \in Containers :
        (ev.c = c /\ ev.kind \in {"touchstart", "touchmove"}
          /\ mouse[c].isDragging /\ touch[c].isDragging) =>
            /\ plugin.dx = DragTranslation(mouse[c].initialX, mouse[c].startX,
                                           touch[c].startX[1])
            /\ plugin.dy = DragTranslation(mouse[c].initialY, mouse[c].startY,
                                           touch[c].startY[1])
            /\ plugin.dx = Add(mouse[c].initialX,
                               Sub(touch[c].startX, mouse[c].startX))
            /\ plugin.dy = Add(mouse[c].initialY,
                               Sub(touch[c].startY, mouse[c].startY))

\* after a prelude that moved the diagram, the finger moved twice, first
\* along x and then along y, and ended away from the start on both axes
C27_Witness ==
    /\ ev.kind = "touchmove" /\ ev.c = "A"
    /\ Len(ev.calls) = 1 /\ ev.calls[1][1] = "moveElement"
    /\ mouse["A"].isDragging /\ touch["A"].isDragging
    /\ mouse["A"].initialX # Zero
    /\ ev.before.dx # mouse["A"].initialX
    /\ ev.before.dy = mouse["A"].initialY
    /\ plugin.dy # mouse["A"].initialY
    /\ plugin.dx = Add(mouse["A"].initialX, Sub(touch["A"].startX, mouse["A"].startX))

\* the inputs of the model that match ^[A-Za-z0-9]+$ and ^\.[\w-]+$
ValidNames == {<<"M">>, <<"g">>, <<"M", "1">>}
ValidSelectors == {<<".", "m">>, <<".", "g">>, <<".", "m", "-", "_">>}

Distinct(diagrams) ==
    \A i, j \in DOMAIN diagrams :
        i # j => /\ diagrams[i].name # diagrams[j].name
                 /\ diagrams[i].selector # diagrams[j].selector

\* C29: starting from a supported-diagrams list with pairwise distinct names
\* and pairwise distinct selectors, after any sequence of add and delete
\* clicks in the settings tab the list still has pairwise distinct names and
\* selectors; an add whose name fails ^[A-Za-z0-9]+$, whose selector fails
\* ^\.[\w-]+$, or whose name or selector already exists leaves the list
\* unchanged and saves nothing.
C29_DiagramsStayDistinct ==
    [][/\ Distinct(settings'.supported_diagrams)
       /\ ev'.kind = "addDiagram" =>
            \A name \in NameInputs, selector \in SelectorInputs :
              LET fails ==
                    \/ name \notin ValidNames
                    \/ selector \notin ValidSelectors
                    \/ \E i \in DOMAIN settings.supported_diagrams :
                         \/ settings.supported_diagrams[i].name = name
                         \/ settings.supported_diagrams[i].selector = selector
              IN  (fails /\ AddDiagram(TRUE, name, selector)) =>
                    /\ settings' = settings
                    /\ \A k \in DOMAIN ev'.calls : ev'.calls[k][1] # "saveSettings"]_vars

\* the list grew to three entries by adds that were saved, and the last
\* click was an add turned down because the name or the selector exists
C29_Witness ==
    /\ ev.kind = "addDiagram"
    /\ ev.calls = << <<"Notice", "Is already exists!">> >>
    /\ Len(settings.supported_diagrams) = 3
    /\ Distinct(settings.supported_diagrams)

====
